---- MODULE Spec2Model ----
(***************************************************************************)
(* Car dealership inventory and booking service.                           *)
(*                                                                         *)
(* The three in-memory stores of app/main.py, the repositories on top of   *)
(* them, and the request handlers of app/api/cars.py and                   *)
(* app/api/bookings.py.  A repository method is an operator of its store,  *)
(* a request handler an operator of the three stores and its arguments,    *)
(* and there is one action per request handler, which runs the handler to  *)
(* completion.                                                             *)
(*                                                                         *)
(* Three further specifications run over the same variables:               *)
(*   - StoreAutoSpec and StoreSpec drive one InMemoryDatabase (store)      *)
(*     through its own methods; assigned is the list of the ids that       *)
(*     create has assigned since the store was built or cleared;           *)
(*   - RaceSpec runs two create_booking requests in threads of the worker  *)
(*     pool (the handlers are plain def functions), one step per access to *)
(*     a shared store.                                                     *)
(*                                                                         *)
(* Encoding of Python values:                                              *)
(*   - a dict _storage (insertion ordered, key = item.id) is the sequence  *)
(*     of its values in iteration order;                                   *)
(*   - Optional[T] returned by a lookup is a sequence of length 0 or 1;    *)
(*   - None is NoneInt where the annotation is Optional[int] and None      *)
(*     where it is an optional string or enum;                             *)
(*   - datetimes are integers 0..MaxTime (only their order is read).       *)
(* A Car is modelled by the fields some handler reads or checks: id, vin,  *)
(* status, dealer_id.  brand, model, year, color and daily_price are       *)
(* copied like status is and read by no branch.  A Booking is id, car_id,  *)
(* start_datetime, end_datetime.                                           *)
(***************************************************************************)
EXTENDS Integers, Sequences, FiniteSets

VARIABLES car_db, booking_db, dealer_db, store, assigned, threads

vars == <<car_db, booking_db, dealer_db, store, assigned, threads>>

----------------------------------------------------------------------------
(* Bounds of the model *)

\* create_car is offered while fewer than MaxCars ids were handed out
MaxCars == 2
\* create_booking is offered while fewer than MaxBookings ids were handed out
MaxBookings == 2
\* datetimes are 0..MaxTime
MaxTime == 2
\* the store's create is offered while next_id is at most MaxStoreIds, and
\* preset ids are 1..MaxStoreIds
MaxStoreIds == 4

----------------------------------------------------------------------------
(* Python values *)

\* None in an Optional[int] position (every integer of the model is >= 0)
NoneInt == -1
\* None in an optional string or enum position
None == "None"

\* CarStatus
AVAILABLE == "available"
MAINTENANCE == "maintenance"
CarStatus == {AVAILABLE, MAINTENANCE}

\* bool(x) of an Optional[int]
Truthy(x) == x # NoneInt /\ x # 0

Times == 0..MaxTime
VINs == {"VIN-A", "VIN-B"}

\* ids a path may name: every id the store can hand out, and one beyond
CarIdInputs == 1..(MaxCars + 1)
BookingIdInputs == 1..(MaxBookings + 1)
\* car_id of a BookingCreate body: also 0, which the schema rejects
BookingCarIdInputs == 0..(MaxCars + 1)
\* the query parameters of GET /bookings: absent, or a value
CarIdFilters == {NoneInt} \cup BookingCarIdInputs
TimeFilters == {NoneInt} \cup Times
\* dealer 1 is the seeded one; 2 is the id of no dealer
DealerIdInputs == {1, 2}

----------------------------------------------------------------------------
(* InMemoryDatabase: [storage |-> <<items in dict order>>, next_id |-> n] *)

EmptyDb == [storage |-> <<>>, next_id |-> 1]

\* key in self._storage
DictHas(storage, key) == \E i \in DOMAIN storage : storage[i].id = key

\* a dict that moves an assigned key to the end
DictSetMoveToEnd(storage, key, item) ==
    Append(SelectSeq(storage, LAMBDA x : x.id # key), item)

\* self._storage[key] = item: replaces in place, or appends a new key
DictSet(storage, key, item) ==
    IF DictHas(storage, key)
    THEN [i \in DOMAIN storage |-> IF storage[i].id = key THEN item ELSE storage[i]]
    ELSE Append(storage, item)

\* create numbering a new item by the count of stored items
DbCreateReuse(db, item) ==
    IF item.id = NoneInt
    THEN LET it == [item EXCEPT !.id = Len(db.storage) + 1]
         IN  [db    |-> [storage |-> DictSet(db.storage, it.id, it),
                         next_id |-> it.id + 1],
              item  |-> <<it>>,
              error |-> FALSE]
    ELSE IF DictHas(db.storage, item.id)
    THEN [db |-> db, item |-> <<>>, error |-> TRUE]
    ELSE [db    |-> [storage |-> DictSet(db.storage, item.id, item),
                     next_id |-> db.next_id],
          item  |-> <<item>>,
          error |-> FALSE]

\* create storing a preset id whether or not it is in use
DbCreateOverwrite(db, item) ==
    IF item.id = NoneInt
    THEN LET it == [item EXCEPT !.id = db.next_id]
         IN  [db    |-> [storage |-> DictSet(db.storage, it.id, it),
                         next_id |-> db.next_id + 1],
              item  |-> <<it>>,
              error |-> FALSE]
    ELSE [db    |-> [storage |-> DictSet(db.storage, item.id, item),
                     next_id |-> db.next_id],
          item  |-> <<item>>,
          error |-> FALSE]

\* InMemoryDatabase.create: error is the ValueError of a preset id in use
DbCreate(db, item) ==
    IF item.id = NoneInt
    THEN LET it == [item EXCEPT !.id = db.next_id]
         IN  [db    |-> [storage |-> DictSet(db.storage, it.id, it),
                         next_id |-> db.next_id + 1],
              item  |-> <<it>>,
              error |-> FALSE]
    ELSE IF DictHas(db.storage, item.id)
    THEN [db |-> db, item |-> <<>>, error |-> TRUE]
    ELSE [db    |-> [storage |-> DictSet(db.storage, item.id, item),
                     next_id |-> db.next_id],
          item  |-> <<item>>,
          error |-> FALSE]

\* InMemoryDatabase.get_by_id: <<>> is None
DbGetById(db, item_id) == SelectSeq(db.storage, LAMBDA x : x.id = item_id)

\* InMemoryDatabase.get_all
DbGetAll(db) == db.storage

\* update storing the item under the id it carries
DbUpdateKeepItemId(db, item_id, item) ==
    IF ~DictHas(db.storage, item_id)
    THEN [db |-> db, item |-> <<>>]
    ELSE [db   |-> [db EXCEPT !.storage =
                       [i \in DOMAIN db.storage |->
                           IF db.storage[i].id = item_id THEN item ELSE db.storage[i]]],
          item |-> <<item>>]

\* InMemoryDatabase.update: item <<>> is the None of an absent key
DbUpdate(db, item_id, item) ==
    IF ~DictHas(db.storage, item_id)
    THEN [db |-> db, item |-> <<>>]
    ELSE LET it == [item EXCEPT !.id = item_id]
         IN  [db   |-> [db EXCEPT !.storage = DictSet(db.storage, item_id, it)],
              item |-> <<it>>]

\* delete answering True for an absent key too
DbDeleteAlwaysTrue(db, item_id) ==
    [db |-> [db EXCEPT !.storage = SelectSeq(db.storage, LAMBDA x : x.id # item_id)],
     ok |-> TRUE]

\* delete that hands the id back when the newest record is deleted
DbDeleteReclaim(db, item_id) ==
    IF DictHas(db.storage, item_id)
    THEN [db |-> [storage |-> SelectSeq(db.storage, LAMBDA x : x.id # item_id),
                  next_id |-> IF item_id = db.next_id - 1 THEN item_id ELSE db.next_id],
          ok |-> TRUE]
    ELSE [db |-> db, ok |-> FALSE]

\* InMemoryDatabase.delete
DbDelete(db, item_id) ==
    IF DictHas(db.storage, item_id)
    THEN [db |-> [db EXCEPT !.storage = SelectSeq(db.storage, LAMBDA x : x.id # item_id)],
          ok |-> TRUE]
    ELSE [db |-> db, ok |-> FALSE]

\* InMemoryDatabase.exists
DbExists(db, item_id) == DictHas(db.storage, item_id)

\* clear that keeps the id counter
DbClearKeepCounter(db) == [storage |-> <<>>, next_id |-> db.next_id]

\* InMemoryDatabase.clear
DbClear(db) == EmptyDb

----------------------------------------------------------------------------
(* Repositories: db is the repository's self.db *)

\* get_by_vin comparing only the first car
get_by_vin_head(db, vin) ==
    IF DbGetAll(db) # <<>> /\ Head(DbGetAll(db)).vin = vin
    THEN <<Head(DbGetAll(db))>>
    ELSE <<>>

\* CarRepository.get_by_vin: the first car with that VIN, or None
get_by_vin(db, vin) ==
    LET found == SelectSeq(DbGetAll(db), LAMBDA c : c.vin = vin)
    IN  IF found = <<>> THEN <<>> ELSE <<Head(found)>>

\* get_by_car_id that skips the first booking
get_by_car_id_tail(db, car_id) ==
    IF DbGetAll(db) = <<>> THEN <<>>
    ELSE SelectSeq(Tail(DbGetAll(db)), LAMBDA b : b.car_id = car_id)

\* BookingRepository.get_by_car_id
get_by_car_id(db, car_id) ==
    SelectSeq(DbGetAll(db), LAMBDA b : b.car_id = car_id)

\* the filter of get_by_datetime_range counting a booking that touches the range
InRangeClosed(booking, start_datetime, end_datetime) ==
    IF start_datetime # NoneInt /\ end_datetime # NoneInt
    THEN booking.start_datetime <= end_datetime /\ booking.end_datetime >= start_datetime
    ELSE IF start_datetime # NoneInt
    THEN booking.start_datetime >= start_datetime
    ELSE IF end_datetime # NoneInt
    THEN booking.end_datetime <= end_datetime
    ELSE FALSE

\* the filter of get_by_datetime_range with a strict start-only bound
InRangeStrictStart(booking, start_datetime, end_datetime) ==
    IF start_datetime # NoneInt /\ end_datetime # NoneInt
    THEN booking.start_datetime < end_datetime /\ booking.end_datetime > start_datetime
    ELSE IF start_datetime # NoneInt
    THEN booking.start_datetime > start_datetime
    ELSE IF end_datetime # NoneInt
    THEN booking.end_datetime <= end_datetime
    ELSE FALSE

\* the loop body of get_by_datetime_range: whether booking is appended
InRange(booking, start_datetime, end_datetime) ==
    IF start_datetime # NoneInt /\ end_datetime # NoneInt
    THEN booking.start_datetime < end_datetime /\ booking.end_datetime > start_datetime
    ELSE IF start_datetime # NoneInt
    THEN booking.start_datetime >= start_datetime
    ELSE IF end_datetime # NoneInt
    THEN booking.end_datetime <= end_datetime
    ELSE FALSE

\* the for loop of get_by_datetime_range, appending to filtered
RECURSIVE ScanRange(_, _, _, _)
ScanRange(bookings, filtered, start_datetime, end_datetime) ==
    IF bookings = <<>> THEN filtered
    ELSE ScanRange(Tail(bookings),
                   IF InRange(Head(bookings), start_datetime, end_datetime)
                   THEN Append(filtered, Head(bookings))
                   ELSE filtered,
                   start_datetime, end_datetime)

\* BookingRepository.get_by_datetime_range: a bound that is None is NoneInt
get_by_datetime_range(db, start_datetime, end_datetime) ==
    IF start_datetime = NoneInt /\ end_datetime = NoneInt
    THEN DbGetAll(db)
    ELSE ScanRange(DbGetAll(db), <<>>, start_datetime, end_datetime)

\* Conflicts, detecting only a request that starts inside the booking
ConflictsStartInside(booking, start_datetime, end_datetime) ==
    start_datetime >= booking.start_datetime /\ start_datetime < booking.end_datetime

\* Conflicts with closed intervals: touching bookings conflict
ConflictsClosed(booking, start_datetime, end_datetime) ==
    ~(end_datetime < booking.start_datetime \/ start_datetime > booking.end_datetime)

\* the loop body's test of has_conflicting_booking
Conflicts(booking, start_datetime, end_datetime) ==
    ~(end_datetime <= booking.start_datetime \/ start_datetime >= booking.end_datetime)

\* the for loop of has_conflicting_booking over car_bookings
RECURSIVE ScanConflict(_, _, _, _)
ScanConflict(car_bookings, start_datetime, end_datetime, exclude_booking_id) ==
    IF car_bookings = <<>> THEN FALSE
    ELSE LET booking == Head(car_bookings)
         IN  IF Truthy(exclude_booking_id) /\ booking.id = exclude_booking_id
             THEN ScanConflict(Tail(car_bookings), start_datetime, end_datetime,
                               exclude_booking_id)
             ELSE IF Conflicts(booking, start_datetime, end_datetime)
             THEN TRUE
             ELSE ScanConflict(Tail(car_bookings), start_datetime, end_datetime,
                               exclude_booking_id)

\* has_conflicting_booking that skips no booking
has_conflicting_booking_no_exclude(db, car_id, start_datetime, end_datetime, exclude_booking_id) ==
    ScanConflict(get_by_car_id(db, car_id), start_datetime, end_datetime, NoneInt)

\* has_conflicting_booking whose exclude_booking_id falls back to 1
has_conflicting_booking_skip_first(db, car_id, start_datetime, end_datetime, exclude_booking_id) ==
    ScanConflict(get_by_car_id(db, car_id), start_datetime, end_datetime,
                 IF exclude_booking_id = NoneInt THEN 1 ELSE exclude_booking_id)

\* BookingRepository.has_conflicting_booking
has_conflicting_booking(db, car_id, start_datetime, end_datetime, exclude_booking_id) ==
    ScanConflict(get_by_car_id(db, car_id), start_datetime, end_datetime,
                 exclude_booking_id)

----------------------------------------------------------------------------
(* Schemas *)

\* BookingCreate rejecting only end before start
BookingCreateValidNonStrict(car_id, start_datetime, end_datetime) ==
    car_id > 0 /\ ~(end_datetime < start_datetime)

\* BookingCreate without its validate_datetimes
BookingCreateValidNoDates(car_id, start_datetime, end_datetime) ==
    car_id > 0

\* BookingCreate: car_id > 0 and validate_datetimes
BookingCreateValid(car_id, start_datetime, end_datetime) ==
    car_id > 0 /\ ~(end_datetime <= start_datetime)

\* Booking.validate_datetimes, run when the handler constructs the Booking
BookingValid(start_datetime, end_datetime) == ~(end_datetime <= start_datetime)

\* CarCreate: vin is a 17-character string, status a CarStatus, dealer_id > 0
CarCreateValid(vin, car_status, dealer_id) ==
    vin \in VINs /\ car_status \in CarStatus /\ dealer_id > 0

\* CarResponse.model_validate(car): vin: str, status: CarStatus, dealer_id: int
CarResponseValid(car) ==
    car.vin # None /\ car.status \in CarStatus /\ car.dealer_id # NoneInt

\* the fields CarUpdate may carry
CarUpdateFields == {"vin", "status", "dealer_id"}

\* CarUpdate payloads that pass the schema: fields_set is model_fields_set, a
\* field that is not set holds its default None, a set field holds a value or
\* an explicit null
CarUpdates ==
    {p \in [fields_set : SUBSET CarUpdateFields,
            vin        : VINs \cup {None},
            status     : CarStatus \cup {None},
            dealer_id  : DealerIdInputs \cup {NoneInt}] :
        /\ "vin" \notin p.fields_set => p.vin = None
        /\ "status" \notin p.fields_set => p.status = None
        /\ "dealer_id" \notin p.fields_set => p.dealer_id = NoneInt}

\* model_copy where an omitted status falls back to the Car default
model_copy_default_status(existing_car, car_data) ==
    [f \in DOMAIN existing_car |->
        IF f \in car_data.fields_set THEN car_data[f]
        ELSE IF f = "status" THEN AVAILABLE
        ELSE existing_car[f]]

\* existing_car.model_copy(update=car_data.model_dump(exclude_unset=True)):
\* the set fields are copied over without validation
model_copy(existing_car, car_data) ==
    [f \in DOMAIN existing_car |->
        IF f \in car_data.fields_set THEN car_data[f] ELSE existing_car[f]]

----------------------------------------------------------------------------
(* app/main.py: the module's stores *)

\* the stores as the handlers find them
App == [car_db |-> car_db, booking_db |-> booking_db, dealer_db |-> dealer_db]

\* the stores when the seeding does not test for an empty collection and runs
\* on every import of the module
InitialAppSeededTwice ==
    [car_db     |-> EmptyDb,
     booking_db |-> EmptyDb,
     dealer_db  |-> DbCreate(DbCreate(EmptyDb, [id |-> NoneInt]).db,
                             [id |-> NoneInt]).db]

\* the stores once the module is imported: one dealer is seeded
InitialApp ==
    [car_db     |-> EmptyDb,
     booking_db |-> EmptyDb,
     dealer_db  |-> IF DbGetAll(EmptyDb) = <<>>
                    THEN DbCreate(EmptyDb, [id |-> NoneInt]).db
                    ELSE EmptyDb]

\* no request is in a worker thread
NoThreads == <<>>

Init ==
    /\ car_db = InitialApp.car_db
    /\ booking_db = InitialApp.booking_db
    /\ dealer_db = InitialApp.dealer_db
    /\ store = EmptyDb
    /\ assigned = <<>>
    /\ threads = NoThreads

----------------------------------------------------------------------------
(* Request handlers.  A handler maps the stores (app) and its arguments to *)
(* the stores it leaves behind, the kind of response (result) and the      *)
(* response body (ret, a sequence of records; <<>> when the response       *)
(* carries none).                                                          *)
(* result: Created 201, OK 200, NoContent 204, NotFound 404, Validation    *)
(* 422, ServerError 500 (an exception other than HTTPException), and the   *)
(* 400s by their detail: VinExists, HasBookings, NotAvailable,             *)
(* AlreadyBooked, EndNotAfterStart.                                        *)

Outcome(app, result, ret) == [app |-> app, result |-> result, ret |-> ret]

\* create_car looking the VIN up before the dealer
create_car_vin_first(app, vin, car_status, dealer_id) ==
    IF ~CarCreateValid(vin, car_status, dealer_id)
    THEN Outcome(app, "Validation", <<>>)
    ELSE IF get_by_vin(app.car_db, vin) # <<>>
    THEN Outcome(app, "VinExists", <<>>)
    ELSE IF DbGetById(app.dealer_db, dealer_id) = <<>>
    THEN Outcome(app, "NotFound", <<>>)
    ELSE LET car == [id |-> NoneInt, vin |-> vin, status |-> car_status,
                     dealer_id |-> dealer_id]
             r == DbCreate(app.car_db, car)
         IN  Outcome([app EXCEPT !.car_db = r.db], "Created", r.item)

\* POST /cars
create_car(app, vin, car_status, dealer_id) ==
    IF ~CarCreateValid(vin, car_status, dealer_id)
    THEN Outcome(app, "Validation", <<>>)
    ELSE IF DbGetById(app.dealer_db, dealer_id) = <<>>
    THEN Outcome(app, "NotFound", <<>>)
    ELSE IF get_by_vin(app.car_db, vin) # <<>>
    THEN Outcome(app, "VinExists", <<>>)
    ELSE LET car == [id |-> NoneInt, vin |-> vin, status |-> car_status,
                     dealer_id |-> dealer_id]
             r == DbCreate(app.car_db, car)
         IN  Outcome([app EXCEPT !.car_db = r.db], "Created", r.item)

\* GET /cars/{car_id}
get_car(app, car_id) ==
    LET car == DbGetById(app.car_db, car_id)
    IN  IF car = <<>>
        THEN Outcome(app, "NotFound", <<>>)
        ELSE IF ~CarResponseValid(car[1])
        THEN Outcome(app, "ServerError", <<>>)
        ELSE Outcome(app, "OK", car)

\* PUT /cars/{car_id}
update_car(app, car_id, car_data) ==
    LET existing == DbGetById(app.car_db, car_id)
    IN  IF existing = <<>>
        THEN Outcome(app, "NotFound", <<>>)
        ELSE LET existing_car == existing[1]
             IN  IF /\ Truthy(car_data.dealer_id)
                    /\ car_data.dealer_id # existing_car.dealer_id
                    /\ DbGetById(app.dealer_db, car_data.dealer_id) = <<>>
                 THEN Outcome(app, "NotFound", <<>>)
                 ELSE IF /\ car_data.vin # None
                         /\ car_data.vin # existing_car.vin
                         /\ get_by_vin(app.car_db, car_data.vin) # <<>>
                 THEN Outcome(app, "VinExists", <<>>)
                 ELSE LET r == DbUpdate(app.car_db, car_id,
                                        model_copy(existing_car, car_data))
                          written == [app EXCEPT !.car_db = r.db]
                      IN  \* the store is written before the response is built
                          IF CarResponseValid(r.item[1])
                          THEN Outcome(written, "OK", r.item)
                          ELSE Outcome(written, "ServerError", <<>>)

\* delete_car without the bookings check
delete_car_unchecked(app, car_id) ==
    IF DbGetById(app.car_db, car_id) = <<>>
    THEN Outcome(app, "NotFound", <<>>)
    ELSE Outcome([app EXCEPT !.car_db = DbDelete(app.car_db, car_id).db],
                 "NoContent", <<>>)

\* DELETE /cars/{car_id}
delete_car(app, car_id) ==
    IF DbGetById(app.car_db, car_id) = <<>>
    THEN Outcome(app, "NotFound", <<>>)
    ELSE IF get_by_car_id(app.booking_db, car_id) # <<>>
    THEN Outcome(app, "HasBookings", <<>>)
    ELSE Outcome([app EXCEPT !.car_db = DbDelete(app.car_db, car_id).db],
                 "NoContent", <<>>)

\* create_booking marking the booked car as out of service
create_booking_reserves_car(app, car_id, start_datetime, end_datetime) ==
    IF ~BookingCreateValid(car_id, start_datetime, end_datetime)
    THEN Outcome(app, "Validation", <<>>)
    ELSE LET found == DbGetById(app.car_db, car_id)
         IN  IF found = <<>>
             THEN Outcome(app, "NotFound", <<>>)
             ELSE IF found[1].status # AVAILABLE
             THEN IF found[1].status = None
                  THEN Outcome(app, "ServerError", <<>>)
                  ELSE Outcome(app, "NotAvailable", <<>>)
             ELSE IF has_conflicting_booking(app.booking_db, car_id, start_datetime,
                                             end_datetime, NoneInt)
             THEN Outcome(app, "AlreadyBooked", <<>>)
             ELSE LET booking == [id |-> NoneInt, car_id |-> car_id,
                                  start_datetime |-> start_datetime,
                                  end_datetime |-> end_datetime]
                      r == DbCreate(app.booking_db, booking)
                      c == DbUpdate(app.car_db, car_id,
                                    [found[1] EXCEPT !.status = MAINTENANCE])
                  IN  Outcome([app EXCEPT !.booking_db = r.db, !.car_db = c.db],
                              "Created", r.item)

\* create_booking taking a car that is not stored for an available one
create_booking_any_car(app, car_id, start_datetime, end_datetime) ==
    IF ~BookingCreateValid(car_id, start_datetime, end_datetime)
    THEN Outcome(app, "Validation", <<>>)
    ELSE LET found == DbGetById(app.car_db, car_id)
         IN  IF found # <<>> /\ found[1].status # AVAILABLE
             THEN IF found[1].status = None
                  THEN Outcome(app, "ServerError", <<>>)
                  ELSE Outcome(app, "NotAvailable", <<>>)
             ELSE IF has_conflicting_booking(app.booking_db, car_id, start_datetime,
                                             end_datetime, NoneInt)
             THEN Outcome(app, "AlreadyBooked", <<>>)
             ELSE LET booking == [id |-> NoneInt, car_id |-> car_id,
                                  start_datetime |-> start_datetime,
                                  end_datetime |-> end_datetime]
                      r == DbCreate(app.booking_db, booking)
                  IN  Outcome([app EXCEPT !.booking_db = r.db], "Created", r.item)

\* POST /bookings
create_booking(app, car_id, start_datetime, end_datetime) ==
    IF ~BookingCreateValid(car_id, start_datetime, end_datetime)
    THEN Outcome(app, "Validation", <<>>)
    ELSE LET found == DbGetById(app.car_db, car_id)
         IN  IF found = <<>>
             THEN Outcome(app, "NotFound", <<>>)
             ELSE IF found[1].status # AVAILABLE
             THEN \* the detail reads car.status.value: AttributeError on None
                  IF found[1].status = None
                  THEN Outcome(app, "ServerError", <<>>)
                  ELSE Outcome(app, "NotAvailable", <<>>)
             ELSE IF has_conflicting_booking(app.booking_db, car_id, start_datetime,
                                             end_datetime, NoneInt)
             THEN Outcome(app, "AlreadyBooked", <<>>)
             ELSE IF ~BookingValid(start_datetime, end_datetime)
             THEN Outcome(app, "ServerError", <<>>)
             ELSE LET booking == [id |-> NoneInt, car_id |-> car_id,
                                  start_datetime |-> start_datetime,
                                  end_datetime |-> end_datetime]
                      r == DbCreate(app.booking_db, booking)
                  IN  Outcome([app EXCEPT !.booking_db = r.db], "Created", r.item)

\* the for loop of get_available_cars
AvailableCars(app, start_datetime, end_datetime) ==
    SelectSeq(DbGetAll(app.car_db),
              LAMBDA car : /\ ~(car.status # AVAILABLE)
                           /\ ~has_conflicting_booking(app.booking_db, car.id,
                                                       start_datetime, end_datetime,
                                                       NoneInt))

\* get_available_cars rejecting only end < start
get_available_cars_strict(app, start_datetime, end_datetime) ==
    IF end_datetime < start_datetime
    THEN Outcome(app, "EndNotAfterStart", <<>>)
    ELSE Outcome(app, "OK", AvailableCars(app, start_datetime, end_datetime))

\* GET /bookings/available-cars
get_available_cars(app, start_datetime, end_datetime) ==
    IF end_datetime <= start_datetime
    THEN Outcome(app, "EndNotAfterStart", <<>>)
    ELSE LET available_cars == AvailableCars(app, start_datetime, end_datetime)
         IN  IF \A i \in DOMAIN available_cars : CarResponseValid(available_cars[i])
             THEN Outcome(app, "OK", available_cars)
             ELSE Outcome(app, "ServerError", <<>>)

\* GET /bookings: car_id, start_datetime, end_datetime are NoneInt when absent
get_bookings(app, car_id, start_datetime, end_datetime) ==
    LET by_car == IF Truthy(car_id)
                  THEN get_by_car_id(app.booking_db, car_id)
                  ELSE DbGetAll(app.booking_db)
        datetime_filtered == get_by_datetime_range(app.booking_db, start_datetime,
                                                   end_datetime)
        datetime_ids == {datetime_filtered[i].id : i \in DOMAIN datetime_filtered}
        bookings == IF start_datetime # NoneInt \/ end_datetime # NoneInt
                    THEN IF Truthy(car_id)
                         THEN SelectSeq(by_car, LAMBDA b : b.id \in datetime_ids)
                         ELSE datetime_filtered
                    ELSE by_car
    IN  Outcome(app, "OK", bookings)

\* GET /bookings/{booking_id}
get_booking(app, booking_id) ==
    LET booking == DbGetById(app.booking_db, booking_id)
    IN  IF booking = <<>>
        THEN Outcome(app, "NotFound", <<>>)
        ELSE Outcome(app, "OK", booking)

\* delete_booking answering 204 and keeping the record
delete_booking_soft(app, booking_id) ==
    IF DbGetById(app.booking_db, booking_id) = <<>>
    THEN Outcome(app, "NotFound", <<>>)
    ELSE Outcome(app, "NoContent", <<>>)

\* DELETE /bookings/{booking_id}
delete_booking(app, booking_id) ==
    IF DbGetById(app.booking_db, booking_id) = <<>>
    THEN Outcome(app, "NotFound", <<>>)
    ELSE Outcome([app EXCEPT !.booking_db = DbDelete(app.booking_db, booking_id).db],
                 "NoContent", <<>>)

----------------------------------------------------------------------------
(* Requests are served one at a time *)

\* the stores after a request
Serve(o) ==
    /\ car_db' = o.app.car_db
    /\ booking_db' = o.app.booking_db
    /\ dealer_db' = o.app.dealer_db
    /\ UNCHANGED <<store, assigned, threads>>

CreateCar ==
    /\ car_db.next_id <= MaxCars
    /\ \E vin \in VINs, st \in CarStatus, d \in DealerIdInputs :
          Serve(create_car(App, vin, st, d))

UpdateCar ==
    \E id \in CarIdInputs, p \in CarUpdates : Serve(update_car(App, id, p))

DeleteCar ==
    \E id \in CarIdInputs : Serve(delete_car(App, id))

CreateBooking ==
    /\ booking_db.next_id <= MaxBookings
    /\ \E id \in BookingCarIdInputs, s \in Times, e \in Times :
          Serve(create_booking(App, id, s, e))

DeleteBooking ==
    \E id \in BookingIdInputs : Serve(delete_booking(App, id))

GetAvailableCars ==
    \E s \in Times, e \in Times : Serve(get_available_cars(App, s, e))

GetBookings ==
    \E id \in CarIdFilters, s \in TimeFilters, e \in TimeFilters :
        Serve(get_bookings(App, id, s, e))

GetBooking ==
    \E id \in BookingIdInputs : Serve(get_booking(App, id))

GetCar ==
    \E id \in CarIdInputs : Serve(get_car(App, id))

Next ==
    \/ CreateCar
    \/ UpdateCar
    \/ DeleteCar
    \/ CreateBooking
    \/ DeleteBooking
    \/ GetAvailableCars
    \/ GetBookings
    \/ GetBooking
    \/ GetCar

Spec == Init /\ [][Next]_vars

----------------------------------------------------------------------------
(* One InMemoryDatabase driven through its methods.  Its items are records *)
(* [id, val]; id is NoneInt for an item that carries no id.                *)

StoreVals == {"a", "b"}
StoreIds == 1..MaxStoreIds
StoreItems == [id : {NoneInt} \cup StoreIds, val : StoreVals]

StoreInit ==
    /\ car_db = InitialApp.car_db
    /\ booking_db = InitialApp.booking_db
    /\ dealer_db = InitialApp.dealer_db
    /\ store = EmptyDb
    /\ assigned = <<>>
    /\ threads = NoThreads

StoreFrame == UNCHANGED <<car_db, booking_db, dealer_db, threads>>

\* create(item) with an item that carries no id
StoreCreate ==
    /\ store.next_id <= MaxStoreIds
    /\ \E v \in StoreVals :
          LET r == DbCreate(store, [id |-> NoneInt, val |-> v])
          IN  /\ store' = r.db
              /\ assigned' = Append(assigned, r.item[1].id)
    /\ StoreFrame

\* create(item) with a preset id
StoreCreatePreset ==
    /\ \E id \in StoreIds, v \in StoreVals :
          store' = DbCreate(store, [id |-> id, val |-> v]).db
    /\ UNCHANGED assigned
    /\ StoreFrame

\* update(item_id, item)
StoreUpdate ==
    /\ \E id \in StoreIds, item \in StoreItems :
          store' = DbUpdate(store, id, item).db
    /\ UNCHANGED assigned
    /\ StoreFrame

\* delete(item_id)
StoreDelete ==
    /\ \E id \in StoreIds : store' = DbDelete(store, id).db
    /\ UNCHANGED assigned
    /\ StoreFrame

\* clear()
StoreClear ==
    /\ store' = DbClear(store)
    /\ assigned' = <<>>
    /\ StoreFrame

\* create without preset id, update and delete; no clear()
StoreAutoNext ==
    \/ StoreCreate
    \/ StoreUpdate
    \/ StoreDelete

StoreAutoSpec == StoreInit /\ [][StoreAutoNext]_vars

StoreNext ==
    \/ StoreCreate
    \/ StoreCreatePreset
    \/ StoreUpdate
    \/ StoreDelete
    \/ StoreClear

StoreSpec == StoreInit /\ [][StoreNext]_vars

----------------------------------------------------------------------------
(* Two create_booking requests in worker threads.  A thread holds the      *)
(* handler's locals: the request body, car_bookings (the list that         *)
(* has_conflicting_booking got from get_by_car_id), booking (the Booking   *)
(* passed to create, <<>> before it is built), next_id (the value loaded   *)
(* by self._next_id += 1) and the response once the handler has returned.  *)
(* A step is one access to a shared store.                                 *)

Threads == {1, 2}

Request(car_id, start_datetime, end_datetime) ==
    [pc |-> "request", car_id |-> car_id, start_datetime |-> start_datetime,
     end_datetime |-> end_datetime, car_bookings |-> <<>>, booking |-> <<>>,
     next_id |-> NoneInt, result |-> None]

\* one AVAILABLE car is stored and two requests have arrived
RaceInit ==
    /\ car_db = create_car(InitialApp, "VIN-A", AVAILABLE, 1).app.car_db
    /\ booking_db = InitialApp.booking_db
    /\ dealer_db = InitialApp.dealer_db
    /\ store = EmptyDb
    /\ assigned = <<>>
    /\ threads \in [Threads -> {Request(c, s, e) :
                                  c \in 1..MaxCars, s \in Times, e \in Times}]

RaceFrame == UNCHANGED <<car_db, dealer_db, store, assigned>>

Respond(t, result) ==
    threads' = [threads EXCEPT ![t].pc = "done", ![t].result = result]

\* the body is parsed, the car looked up and its status read
LookupCar(t) ==
    /\ threads[t].pc = "request"
    /\ LET r == threads[t]
           found == DbGetById(car_db, r.car_id)
       IN  IF ~BookingCreateValid(r.car_id, r.start_datetime, r.end_datetime)
           THEN Respond(t, "Validation")
           ELSE IF found = <<>>
           THEN Respond(t, "NotFound")
           ELSE IF found[1].status # AVAILABLE
           THEN IF found[1].status = None
                THEN Respond(t, "ServerError")
                ELSE Respond(t, "NotAvailable")
           ELSE threads' = [threads EXCEPT ![t].pc = "check"]
    /\ UNCHANGED booking_db
    /\ RaceFrame

\* has_conflicting_booking: get_all copies the values, the loop reads the copy
CheckConflict(t) ==
    /\ threads[t].pc = "check"
    /\ LET r == threads[t]
       IN  IF has_conflicting_booking(booking_db, r.car_id, r.start_datetime,
                                      r.end_datetime, NoneInt)
           THEN threads' = [threads EXCEPT
                               ![t].car_bookings = get_by_car_id(booking_db, r.car_id),
                               ![t].pc = "done", ![t].result = "AlreadyBooked"]
           ELSE threads' = [threads EXCEPT
                               ![t].car_bookings = get_by_car_id(booking_db, r.car_id),
                               ![t].pc = "assign"]
    /\ UNCHANGED booking_db
    /\ RaceFrame

\* Booking(**booking_data.model_dump()); create: item.id = self._next_id
AssignId(t) ==
    /\ threads[t].pc = "assign"
    /\ LET r == threads[t]
       IN  threads' = [threads EXCEPT
                          ![t].booking = <<[id |-> booking_db.next_id,
                                            car_id |-> r.car_id,
                                            start_datetime |-> r.start_datetime,
                                            end_datetime |-> r.end_datetime]>>,
                          ![t].pc = "load"]
    /\ UNCHANGED booking_db
    /\ RaceFrame

\* self._next_id += 1: the load
LoadNextId(t) ==
    /\ threads[t].pc = "load"
    /\ threads' = [threads EXCEPT ![t].next_id = booking_db.next_id,
                                  ![t].pc = "store"]
    /\ UNCHANGED booking_db
    /\ RaceFrame

\* self._next_id += 1: the store
StoreNextId(t) ==
    /\ threads[t].pc = "store"
    /\ booking_db' = [booking_db EXCEPT !.next_id = threads[t].next_id + 1]
    /\ threads' = [threads EXCEPT ![t].pc = "insert"]
    /\ RaceFrame

\* self._storage[item_id] = item, and the response
InsertBooking(t) ==
    /\ threads[t].pc = "insert"
    /\ LET b == threads[t].booking[1]
       IN  booking_db' = [booking_db EXCEPT !.storage = DictSet(@, b.id, b)]
    /\ Respond(t, "Created")
    /\ RaceFrame

RaceNext ==
    \E t \in Threads :
        \/ LookupCar(t)
        \/ CheckConflict(t)
        \/ AssignId(t)
        \/ LoadNextId(t)
        \/ StoreNextId(t)
        \/ InsertBooking(t)

RaceSpec == RaceInit /\ [][RaceNext]_vars

----------------------------------------------------------------------------
(* Two create_car requests in worker threads.  A thread holds the request  *)
(* body, cars (the list that get_by_vin got from get_all), car (the Car    *)
(* passed to create), next_id and the response.                            *)

CarRequest(vin, car_status, dealer_id) ==
    [pc |-> "request", vin |-> vin, status |-> car_status, dealer_id |-> dealer_id,
     cars |-> <<>>, car |-> <<>>, next_id |-> NoneInt, result |-> None]

\* one car is stored and two requests have arrived
VinRaceInit ==
    /\ car_db = create_car(InitialApp, "VIN-B", AVAILABLE, 1).app.car_db
    /\ booking_db = InitialApp.booking_db
    /\ dealer_db = InitialApp.dealer_db
    /\ store = EmptyDb
    /\ assigned = <<>>
    /\ threads \in [Threads -> {CarRequest(v, st, d) :
                                  v \in VINs, st \in CarStatus, d \in DealerIdInputs}]

VinRaceFrame == UNCHANGED <<booking_db, dealer_db, store, assigned>>

\* the body is parsed and the dealer looked up
CarLookupDealer(t) ==
    /\ threads[t].pc = "request"
    /\ LET r == threads[t]
       IN  IF ~CarCreateValid(r.vin, r.status, r.dealer_id)
           THEN Respond(t, "Validation")
           ELSE IF DbGetById(dealer_db, r.dealer_id) = <<>>
           THEN Respond(t, "NotFound")
           ELSE threads' = [threads EXCEPT ![t].pc = "vin"]
    /\ UNCHANGED car_db
    /\ VinRaceFrame

\* get_by_vin: get_all copies the values, the loop reads the copy
CarCheckVin(t) ==
    /\ threads[t].pc = "vin"
    /\ IF get_by_vin(car_db, threads[t].vin) # <<>>
       THEN threads' = [threads EXCEPT ![t].cars = DbGetAll(car_db),
                                       ![t].pc = "done", ![t].result = "VinExists"]
       ELSE threads' = [threads EXCEPT ![t].cars = DbGetAll(car_db),
                                       ![t].pc = "assign"]
    /\ UNCHANGED car_db
    /\ VinRaceFrame

\* Car(**car_data.model_dump()); create: item.id = self._next_id
CarAssignId(t) ==
    /\ threads[t].pc = "assign"
    /\ LET r == threads[t]
       IN  threads' = [threads EXCEPT
                          ![t].car = <<[id |-> car_db.next_id, vin |-> r.vin,
                                        status |-> r.status,
                                        dealer_id |-> r.dealer_id]>>,
                          ![t].pc = "load"]
    /\ UNCHANGED car_db
    /\ VinRaceFrame

\* self._next_id += 1: the load
CarLoadNextId(t) ==
    /\ threads[t].pc = "load"
    /\ threads' = [threads EXCEPT ![t].next_id = car_db.next_id, ![t].pc = "store"]
    /\ UNCHANGED car_db
    /\ VinRaceFrame

\* self._next_id += 1: the store
CarStoreNextId(t) ==
    /\ threads[t].pc = "store"
    /\ car_db' = [car_db EXCEPT !.next_id = threads[t].next_id + 1]
    /\ threads' = [threads EXCEPT ![t].pc = "insert"]
    /\ VinRaceFrame

\* self._storage[item_id] = item, and the response
CarInsert(t) ==
    /\ threads[t].pc = "insert"
    /\ LET c == threads[t].car[1]
       IN  car_db' = [car_db EXCEPT !.storage = DictSet(@, c.id, c)]
    /\ Respond(t, "Created")
    /\ VinRaceFrame

VinRaceNext ==
    \E t \in Threads :
        \/ CarLookupDealer(t)
        \/ CarCheckVin(t)
        \/ CarAssignId(t)
        \/ CarLoadNextId(t)
        \/ CarStoreNextId(t)
        \/ CarInsert(t)

VinRaceSpec == VinRaceInit /\ [][VinRaceNext]_vars

----------------------------------------------------------------------------
(* A create_booking request (thread 1, stepping as in RaceSpec) and a      *)
(* delete_car request (thread 2) in worker threads.  The delete_car thread *)
(* holds car_id, bookings (the list that get_by_car_id got from get_all)   *)
(* and the response.                                                       *)

DeleteRequest(car_id) ==
    [pc |-> "delete_request", car_id |-> car_id, bookings |-> <<>>, result |-> None]

\* one AVAILABLE car is stored and the two requests have arrived
DeleteRaceInit ==
    /\ car_db = create_car(InitialApp, "VIN-A", AVAILABLE, 1).app.car_db
    /\ booking_db = InitialApp.booking_db
    /\ dealer_db = InitialApp.dealer_db
    /\ store = EmptyDb
    /\ assigned = <<>>
    /\ \E c \in 1..MaxCars, s \in Times, e \in Times, id \in 1..MaxCars :
          threads = [t \in Threads |-> IF t = 1 THEN Request(c, s, e)
                                       ELSE DeleteRequest(id)]

DeleteRaceFrame == UNCHANGED <<booking_db, dealer_db, store, assigned>>

\* the car is looked up
DeleteLookupCar(t) ==
    /\ threads[t].pc = "delete_request"
    /\ IF DbGetById(car_db, threads[t].car_id) = <<>>
       THEN Respond(t, "NotFound")
       ELSE threads' = [threads EXCEPT ![t].pc = "delete_check"]
    /\ UNCHANGED car_db
    /\ DeleteRaceFrame

\* get_by_car_id: get_all copies the values, the comprehension reads the copy
DeleteCheckBookings(t) ==
    /\ threads[t].pc = "delete_check"
    /\ IF get_by_car_id(booking_db, threads[t].car_id) # <<>>
       THEN threads' = [threads EXCEPT ![t].bookings = DbGetAll(booking_db),
                                       ![t].pc = "done", ![t].result = "HasBookings"]
       ELSE threads' = [threads EXCEPT ![t].bookings = DbGetAll(booking_db),
                                       ![t].pc = "delete_remove"]
    /\ UNCHANGED car_db
    /\ DeleteRaceFrame

\* car_repo.delete(car_id), and the response
DeleteRemove(t) ==
    /\ threads[t].pc = "delete_remove"
    /\ car_db' = DbDelete(car_db, threads[t].car_id).db
    /\ Respond(t, "NoContent")
    /\ DeleteRaceFrame

DeleteRaceNext ==
    \E t \in Threads :
        \/ LookupCar(t)
        \/ CheckConflict(t)
        \/ AssignId(t)
        \/ LoadNextId(t)
        \/ StoreNextId(t)
        \/ InsertBooking(t)
        \/ DeleteLookupCar(t)
        \/ DeleteCheckBookings(t)
        \/ DeleteRemove(t)

DeleteRaceSpec == DeleteRaceInit /\ [][DeleteRaceNext]_vars

----------------------------------------------------------------------------
(* The BookingRepository driven through create and delete, as its callers  *)
(* and the tests do.  The repository checks nothing itself: any Booking    *)
(* that its domain model accepts can be stored, also one that overlaps     *)
(* another.  Datetimes range over one more value than in the handlers, so  *)
(* that a reversed pair of bounds can lie inside a booking.                *)

RepoTimes == 0..(MaxTime + 1)
RepoCarIds == 1..MaxCars

RepoInit ==
    /\ car_db = InitialApp.car_db
    /\ booking_db = InitialApp.booking_db
    /\ dealer_db = InitialApp.dealer_db
    /\ store = EmptyDb
    /\ assigned = <<>>
    /\ threads = NoThreads

RepoFrame == UNCHANGED <<car_db, dealer_db, store, assigned, threads>>

\* BookingRepository.create of a Booking without id
RepoCreate ==
    /\ booking_db.next_id <= MaxBookings
    /\ \E c \in RepoCarIds, s \in RepoTimes, e \in RepoTimes :
          /\ BookingValid(s, e)
          /\ booking_db' = DbCreate(booking_db,
                                    [id |-> NoneInt, car_id |-> c,
                                     start_datetime |-> s, end_datetime |-> e]).db
    /\ RepoFrame

\* BookingRepository.delete
RepoDelete ==
    /\ \E id \in BookingIdInputs : booking_db' = DbDelete(booking_db, id).db
    /\ RepoFrame

RepoNext ==
    \/ RepoCreate
    \/ RepoDelete

RepoSpec == RepoInit /\ [][RepoNext]_vars

----------------------------------------------------------------------------
(* Properties *)

Cars == car_db.storage
Bookings == booking_db.storage
CarStored(id) == \E i \in DOMAIN Cars : Cars[i].id = id
DealerStored(id) == \E i \in DOMAIN dealer_db.storage : dealer_db.storage[i].id = id
\* half-open intervals [s1, e1) and [s2, e2) intersect
Overlap(s1, e1, s2, e2) == s1 < e2 /\ s2 < e1
\* some stored booking of the car overlaps [s, e)
Booked(id, s, e) ==
    \E i \in DOMAIN Bookings :
        /\ Bookings[i].car_id = id
        /\ Overlap(s, e, Bookings[i].start_datetime, Bookings[i].end_datetime)

\* C1: no two stored bookings of the same car have overlapping half-open
\* intervals, in every state the API reaches.
C1_NoDoubleBooking ==
    \A i, j \in DOMAIN Bookings :
        (i # j /\ Bookings[i].car_id = Bookings[j].car_id)
            => ~Overlap(Bookings[i].start_datetime, Bookings[i].end_datetime,
                        Bookings[j].start_datetime, Bookings[j].end_datetime)

\* two bookings of one car are stored, and a third request over one of them
\* is refused
C1_Witness ==
    \E i, j \in DOMAIN Bookings :
        /\ i # j
        /\ Bookings[i].car_id = Bookings[j].car_id
        /\ create_booking(App, Bookings[i].car_id, Bookings[i].start_datetime,
                          Bookings[i].end_datetime).result = "AlreadyBooked"

\* C2: no two distinct stored cars have the same VIN, in every state the API
\* reaches.
C2_VinUnique ==
    \A i, j \in DOMAIN Cars : i # j => Cars[i].vin # Cars[j].vin

\* C3: has_conflicting_booking(car_id, s, e) without exclude id is true iff
\* some stored booking of that car has s < b.end and b.start < e; bookings of
\* other cars and bookings that only touch the request never conflict.
C3_ConflictIffOverlap ==
    \A c \in BookingCarIdInputs, s \in Times, e \in Times :
        /\ has_conflicting_booking(booking_db, c, s, e, NoneInt) <=> Booked(c, s, e)
        /\ (\A i \in DOMAIN Bookings :
               \/ Bookings[i].car_id # c
               \/ Bookings[i].end_datetime = s
               \/ Bookings[i].start_datetime = e)
             => ~has_conflicting_booking(booking_db, c, s, e, NoneInt)

\* bookings of two cars are stored; for one car a request touching its
\* booking does not conflict while a request overlapping it does
C3_Witness ==
    \E i, j \in DOMAIN Bookings :
        /\ Bookings[i].car_id # Bookings[j].car_id
        /\ \E e \in Times :
              /\ Bookings[i].end_datetime < e
              /\ ~has_conflicting_booking(booking_db, Bookings[i].car_id,
                                          Bookings[i].end_datetime, e, NoneInt)
              /\ has_conflicting_booking(booking_db, Bookings[i].car_id,
                                         Bookings[i].start_datetime, e, NoneInt)

\* C4: for end > start, create-booking is NotFound if the car does not
\* exist, else Conflict "not available" if its status is not AVAILABLE, else
\* Conflict "already booked" if a stored booking of the car overlaps, else
\* success; the three failures leave the stores unchanged.
C4_CreateBookingOutcomes ==
    \A c \in CarIdInputs, s \in Times, e \in Times :
        s < e =>
            LET o == create_booking(App, c, s, e)
                car == CHOOSE x \in {Cars[i] : i \in DOMAIN Cars} : x.id = c
            IN  /\ o.result =
                      IF ~CarStored(c) THEN "NotFound"
                      ELSE IF car.status # AVAILABLE THEN "NotAvailable"
                      ELSE IF Booked(c, s, e) THEN "AlreadyBooked"
                      ELSE "Created"
                /\ o.result # "Created" => o.app = App

\* C5 as stated: a create-booking request naming no existing car is NotFound
\* even when end_datetime <= start_datetime.
C5_NotFoundBeforeDates ==
    \A c \in CarIdInputs, s \in Times, e \in Times :
        (~CarStored(c) /\ e <= s) => create_booking(App, c, s, e).result = "NotFound"

\* C5 amended: a create-booking request with end_datetime <= start_datetime
\* is a Validation error whether or not its car exists, and nothing is
\* written; a request naming no existing car is NotFound when its dates are
\* valid.
C5_DatesBeforeNotFound ==
    \A c \in CarIdInputs, s \in Times, e \in Times :
        LET o == create_booking(App, c, s, e)
        IN  /\ e <= s => (o.result = "Validation" /\ o.app = App)
            /\ (s < e /\ ~CarStored(c)) => (o.result = "NotFound" /\ o.app = App)

\* a car is stored, another id names no car, and a request with end = start
\* for the missing car is refused as invalid
C5_Witness ==
    /\ Cars # <<>>
    /\ \E c \in CarIdInputs, s \in Times :
          ~CarStored(c) /\ create_booking(App, c, s, s).result = "Validation"

\* C6: deleting a car referenced by at least one stored booking fails with
\* Conflict, whatever the bookings' dates, and leaves the car and booking
\* collections as they were.
C6_DeleteCarWithBookingsRefused ==
    \A id \in CarIdInputs :
        (\E i \in DOMAIN Bookings : Bookings[i].car_id = id)
            => LET o == delete_car(App, id)
               IN  o.result = "HasBookings" /\ o.app = App

\* a car that is no longer AVAILABLE has a booking and its deletion is refused
C6_Witness ==
    \E i \in DOMAIN Bookings, j \in DOMAIN Cars :
        /\ Bookings[i].car_id = Cars[j].id
        /\ Cars[j].status = MAINTENANCE
        /\ delete_car(App, Cars[j].id).result = "HasBookings"

\* C7: for start < end, get_available_cars returns exactly the stored cars
\* with status AVAILABLE and no conflicting booking, in store order.
C7_AvailabilityExact ==
    \A s \in Times, e \in Times :
        s < e =>
            LET o == get_available_cars(App, s, e)
            IN  /\ o.result = "OK"
                /\ o.ret = SelectSeq(Cars,
                              LAMBDA c : /\ c.status = AVAILABLE
                                         /\ ~has_conflicting_booking(booking_db, c.id,
                                                                     s, e, NoneInt))
                /\ \A i \in DOMAIN o.ret : o.ret[i].status # MAINTENANCE

\* C8: an availability query with end_datetime <= start_datetime fails with
\* the end-not-after-start error, returns no car list and writes no store.
C8_AvailabilityRejectsBadRange ==
    \A s \in Times, e \in Times :
        e <= s =>
            LET o == get_available_cars(App, s, e)
            IN  o.result = "EndNotAfterStart" /\ o.ret = <<>> /\ o.app = App

\* an AVAILABLE car without bookings is stored, a query over a real range
\* returns it, and the query with end = start is refused
C8_Witness ==
    /\ \E s \in Times, e \in Times :
          /\ get_available_cars(App, s, e).result = "OK"
          /\ get_available_cars(App, s, e).ret # <<>>
    /\ \E s \in Times : get_available_cars(App, s, s).result = "EndNotAfterStart"

\* C9: after a successful update_car(id, payload) the stored car keeps its id
\* and every field the payload does not supply, the supplied fields hold the
\* payload's values, every other car, the order of the cars and the next-id
\* counter are unchanged, and the stored car is the one returned; with an
\* empty payload nothing changes and the car as it was is returned.
C9_PartialUpdateFrame ==
    \A id \in CarIdInputs, p \in CarUpdates :
        LET o == update_car(App, id, p)
            after == o.app.car_db.storage
        IN  o.result = "OK" =>
              /\ o.app.car_db.next_id = car_db.next_id
              /\ o.app.booking_db = booking_db
              /\ o.app.dealer_db = dealer_db
              /\ DOMAIN after = DOMAIN Cars
              /\ \A i \in DOMAIN Cars :
                    IF Cars[i].id = id
                    THEN /\ after[i].id = id
                         /\ \A f \in CarUpdateFields \ p.fields_set :
                               after[i][f] = Cars[i][f]
                         /\ \A f \in p.fields_set : after[i][f] = p[f]
                         /\ o.ret = <<after[i]>>
                    ELSE after[i] = Cars[i]
              /\ p.fields_set = {} =>
                    /\ o.app = App
                    /\ \E i \in DOMAIN Cars : Cars[i].id = id /\ o.ret = <<Cars[i]>>

\* with two cars stored, an update supplying only the status changes the
\* status of a car in maintenance and succeeds
C9_Witness ==
    /\ Len(Cars) = 2
    /\ \E i \in DOMAIN Cars, p \in CarUpdates :
          /\ p.fields_set = {"status"}
          /\ Cars[i].status = MAINTENANCE
          /\ p.status = AVAILABLE
          /\ update_car(App, Cars[i].id, p).result = "OK"

\* C10: update_car is NotFound if the car is absent; else NotFound if the
\* payload changes dealer_id to a dealer that does not exist; else Conflict
\* if the payload changes the VIN to one held by another car; a car's own VIN
\* is no conflict; on every failure the car collection is unchanged.
C10_UpdateCarRevalidation ==
    \A id \in CarIdInputs, p \in CarUpdates :
        LET o == update_car(App, id, p)
            car == CHOOSE x \in {Cars[i] : i \in DOMAIN Cars} : x.id = id
        IN  /\ IF ~CarStored(id) THEN o.result = "NotFound"
               ELSE IF /\ "dealer_id" \in p.fields_set
                       /\ p.dealer_id # NoneInt
                       /\ p.dealer_id # car.dealer_id
                       /\ ~DealerStored(p.dealer_id)
               THEN o.result = "NotFound"
               ELSE IF /\ "vin" \in p.fields_set
                       /\ p.vin # None
                       /\ p.vin # car.vin
                       /\ \E i \in DOMAIN Cars : Cars[i].id # id /\ Cars[i].vin = p.vin
               THEN o.result = "VinExists"
               ELSE o.result \notin {"NotFound", "VinExists"}
            /\ o.result # "OK" => o.app.car_db = car_db

\* C11: create_car is NotFound if the dealer does not exist, also when the
\* VIN is a duplicate; else Conflict if a stored car has the VIN; else the car
\* is stored under a newly assigned id and returned.  A failure leaves the car
\* collection and its next-id counter unchanged.
C11_CreateCarOutcomes ==
    \A vin \in VINs, st \in CarStatus, d \in DealerIdInputs :
        LET o == create_car(App, vin, st, d)
            car == [id |-> car_db.next_id, vin |-> vin, status |-> st, dealer_id |-> d]
        IN  IF ~DealerStored(d)
            THEN o.result = "NotFound" /\ o.app = App
            ELSE IF \E i \in DOMAIN Cars : Cars[i].vin = vin
            THEN o.result = "VinExists" /\ o.app = App
            ELSE /\ o.result = "Created"
                 /\ o.ret = <<car>>
                 /\ ~CarStored(car.id)
                 /\ o.app.car_db = [storage |-> Append(Cars, car),
                                    next_id |-> car_db.next_id + 1]
                 /\ o.app.booking_db = booking_db
                 /\ o.app.dealer_db = dealer_db

\* a car is stored; a request with its VIN and a missing dealer is NotFound,
\* with its VIN and the seeded dealer a Conflict, with a fresh VIN created
C11_Witness ==
    \E i \in DOMAIN Cars, d \in DealerIdInputs, e \in DealerIdInputs, v \in VINs :
        /\ Cars[i].vin \in VINs
        /\ create_car(App, Cars[i].vin, AVAILABLE, d).result = "NotFound"
        /\ create_car(App, Cars[i].vin, AVAILABLE, e).result = "VinExists"
        /\ create_car(App, v, AVAILABLE, e).result = "Created"

\* C12: once delete_booking(id) has succeeded for booking b, get_booking(id)
\* is NotFound and a create-booking request for b's car over b's interval
\* succeeds in the next step, provided the car is AVAILABLE and no other
\* stored booking of the car overlaps the interval.
C12_CancellationFreesInterval ==
    \A i \in DOMAIN Bookings :
        LET b == Bookings[i]
            o == delete_booking(App, b.id)
        IN  /\ o.result = "NoContent"
            /\ get_booking(o.app, b.id).result = "NotFound"
            /\ ( /\ \E k \in DOMAIN Cars :
                       Cars[k].id = b.car_id /\ Cars[k].status = AVAILABLE
                 /\ \A j \in DOMAIN Bookings :
                       (j # i /\ Bookings[j].car_id = b.car_id)
                          => ~Overlap(b.start_datetime, b.end_datetime,
                                      Bookings[j].start_datetime,
                                      Bookings[j].end_datetime) )
               => create_booking(o.app, b.car_id, b.start_datetime,
                                 b.end_datetime).result = "Created"

\* an AVAILABLE car has two bookings; before the cancellation of one its
\* interval is taken, after it the interval can be booked
C12_Witness ==
    \E i, j \in DOMAIN Bookings :
        /\ i # j
        /\ Bookings[i].car_id = Bookings[j].car_id
        /\ create_booking(App, Bookings[i].car_id, Bookings[i].start_datetime,
                          Bookings[i].end_datetime).result = "AlreadyBooked"
        /\ create_booking(delete_booking(App, Bookings[i].id).app,
                          Bookings[i].car_id, Bookings[i].start_datetime,
                          Bookings[i].end_datetime).result = "Created"

\* C13: delete_booking(id) is NotFound and changes nothing if no booking has
\* that id; otherwise it removes exactly that booking, whatever its dates and
\* its car's status, and leaves every other booking, every car and the
\* next-id counter unchanged.
C13_DeleteBookingFrame ==
    \A id \in BookingIdInputs :
        LET o == delete_booking(App, id)
        IN  IF ~\E i \in DOMAIN Bookings : Bookings[i].id = id
            THEN o.result = "NotFound" /\ o.app = App
            ELSE /\ o.result = "NoContent"
                 /\ o.app.booking_db.storage = SelectSeq(Bookings, LAMBDA b : b.id # id)
                 /\ Len(o.app.booking_db.storage) = Len(Bookings) - 1
                 /\ o.app.booking_db.next_id = booking_db.next_id
                 /\ o.app.car_db = car_db
                 /\ o.app.dealer_db = dealer_db

\* the newest of two bookings, on a car that went into maintenance, is
\* deleted
C13_Witness ==
    \E i \in DOMAIN Bookings, k \in DOMAIN Cars :
        /\ Len(Bookings) = 2
        /\ Bookings[i].id = booking_db.next_id - 1
        /\ Cars[k].id = Bookings[i].car_id
        /\ Cars[k].status = MAINTENANCE
        /\ delete_booking(App, Bookings[i].id).result = "NoContent"

\* C14: in any sequence of create (without preset id), update and delete on
\* one store with no clear(), the ids assigned are 1, 2, 3, ... in order, the
\* next-id counter never decreases, and an id is never assigned again, also
\* after its item was deleted.
C14_IdentityAssignment ==
    /\ [](/\ assigned = [i \in 1..Len(assigned) |-> i]
          /\ store.next_id = Len(assigned) + 1
          /\ \A i \in DOMAIN store.storage :
                \E k \in DOMAIN assigned : store.storage[i].id = assigned[k])
    /\ [][/\ store'.next_id >= store.next_id
          /\ assigned' # assigned =>
                /\ assigned' = Append(assigned, store.next_id)
                /\ store'.next_id > store.next_id
                /\ \A k \in DOMAIN assigned : assigned[k] < store.next_id]_vars

\* MaxStoreIds ids were assigned, all but the newest were deleted again
C14_Witness ==
    /\ Len(assigned) = MaxStoreIds
    /\ Len(store.storage) = 1
    /\ store.storage[1].id = MaxStoreIds

\* C15: get_bookings with a car_id supplied (any integer, 0 and ids of no car
\* included) returns exactly the stored bookings of that car_id that pass
\* get_by_datetime_range(start, end); without car_id, exactly those that pass
\* the date filter.
C15_GetBookingsComposition ==
    \A c \in CarIdFilters, s \in TimeFilters, e \in TimeFilters :
        LET o == get_bookings(App, c, s, e)
            dated == get_by_datetime_range(booking_db, s, e)
        IN  /\ o.result = "OK"
            /\ o.ret = IF c = NoneInt THEN dated
                       ELSE SelectSeq(dated, LAMBDA b : b.car_id = c)

\* C16: get_by_datetime_range returns all bookings when both bounds are
\* absent, those with start < end bound and end > start bound when both are
\* given, those with start >= bound when only start is given, those with
\* end <= bound when only end is given, always in store order.
C16_RangeFourWay ==
    \A s \in TimeFilters, e \in TimeFilters :
        get_by_datetime_range(booking_db, s, e) =
            SelectSeq(Bookings,
               LAMBDA b : CASE s = NoneInt /\ e = NoneInt -> TRUE
                            [] s # NoneInt /\ e # NoneInt ->
                                  b.start_datetime < e /\ b.end_datetime > s
                            [] s # NoneInt /\ e = NoneInt -> b.start_datetime >= s
                            [] s = NoneInt /\ e # NoneInt -> b.end_datetime <= e)

\* two bookings are stored; a start-only bound at the later booking's start
\* returns only the later one, an end-only bound at the earlier one's end only
\* the earlier one, and the two-sided range between them returns neither
C16_Witness ==
    \E i, j \in DOMAIN Bookings :
        /\ Bookings[i].end_datetime <= Bookings[j].start_datetime
        /\ get_by_datetime_range(booking_db, Bookings[j].start_datetime, NoneInt)
              = <<Bookings[j]>>
        /\ get_by_datetime_range(booking_db, NoneInt, Bookings[i].end_datetime)
              = <<Bookings[i]>>
        /\ get_by_datetime_range(booking_db, Bookings[i].end_datetime,
                                 Bookings[j].start_datetime) = <<>>
        /\ get_by_datetime_range(booking_db, NoneInt, NoneInt) = Bookings

\* C17: two concurrent create-booking requests for the same AVAILABLE car
\* with overlapping intervals can both pass the conflict check before either
\* inserts, and then both are stored; it is the only way two overlapping
\* bookings of a car get stored.
C17_DoubleBookingByRace ==
    \A i, j \in DOMAIN booking_db.storage :
        LET a == booking_db.storage[i]
            b == booking_db.storage[j]
        IN  (i # j /\ a.car_id = b.car_id
                   /\ Overlap(a.start_datetime, a.end_datetime,
                              b.start_datetime, b.end_datetime))
            => \A t \in Threads : /\ threads[t].result = "Created"
                                  /\ threads[t].car_bookings = <<>>

\* both requests were answered 201 and their overlapping bookings of the
\* AVAILABLE car are stored
C17_Witness ==
    /\ \A t \in Threads : threads[t].result = "Created"
    /\ \E i, j \in DOMAIN booking_db.storage :
          /\ i # j
          /\ booking_db.storage[i].car_id = booking_db.storage[j].car_id
          /\ Overlap(booking_db.storage[i].start_datetime,
                     booking_db.storage[i].end_datetime,
                     booking_db.storage[j].start_datetime,
                     booking_db.storage[j].end_datetime)
          /\ \E k \in DOMAIN Cars : /\ Cars[k].id = booking_db.storage[i].car_id
                                    /\ Cars[k].status = AVAILABLE

\* C18: a create-booking request with end_datetime <= start_datetime fails
\* validation and leaves the booking collection, its next-id counter and the
\* car collection unchanged; every stored booking has end_datetime after
\* start_datetime.
C18_BookingsWellOrdered ==
    /\ \A c \in BookingCarIdInputs, s \in Times, e \in Times :
          e <= s => LET o == create_booking(App, c, s, e)
                    IN  o.result = "Validation" /\ o.app = App
    /\ \A i \in DOMAIN Bookings :
          Bookings[i].start_datetime < Bookings[i].end_datetime

\* bookings are stored, and a request with end = start for an AVAILABLE car
\* with a free interval is refused
C18_Witness ==
    /\ Bookings # <<>>
    /\ \E k \in DOMAIN Cars, s \in Times :
          /\ Cars[k].status = AVAILABLE
          /\ ~Booked(Cars[k].id, s, s + 1)
          /\ create_booking(App, Cars[k].id, s, s).result = "Validation"

\* C19: every stored car's dealer_id is the id of an existing dealer, in
\* every state reached by create-car and update-car requests whose payloads
\* omit a field, give it a value or give it as null.
C19_DealerReferenceIntegrity ==
    \A i \in DOMAIN Cars : DealerStored(Cars[i].dealer_id)

\* C20: create of an item whose preset id is a key of the store fails with
\* the duplicate-key error and leaves the store and its next-id counter
\* unchanged; create of an item that carries no id stores it under the next
\* sequential id and returns it.
C20_CreatePresetId ==
    \A item \in StoreItems :
        LET r == DbCreate(store, item)
            it == [item EXCEPT !.id = store.next_id]
        IN  /\ (item.id # NoneInt /\ DictHas(store.storage, item.id))
               => r.error /\ r.db = store
            /\ item.id = NoneInt
               => /\ ~r.error
                  /\ r.item = <<it>>
                  /\ DbGetById(r.db, store.next_id) = <<it>>
                  /\ r.db.next_id = store.next_id + 1

\* the store holds an item created under a preset id and one created without
C20_Witness ==
    \E i, j \in DOMAIN store.storage :
        /\ store.storage[i].id >= store.next_id
        /\ store.storage[j].id < store.next_id
        /\ DbCreate(store, store.storage[i]).error
        /\ DbCreate(store, store.storage[j]).error
        /\ ~DbCreate(store, [id |-> NoneInt, val |-> "a"]).error

\* C21: store update(id, item) on a key of the store replaces the record at
\* id by item with its id set to the key, whatever id the passed item
\* carried, leaves every other record and the next-id counter unchanged and
\* returns the updated record; on an id that is no key it returns the
\* not-found signal and leaves the store unchanged.
C21_StoreUpdate ==
    \A id \in StoreIds, item \in StoreItems :
        LET r == DbUpdate(store, id, item)
            it == [item EXCEPT !.id = id]
        IN  IF DictHas(store.storage, id)
            THEN /\ r.item = <<it>>
                 /\ DbGetById(r.db, id) = <<it>>
                 /\ r.db.next_id = store.next_id
                 /\ Len(r.db.storage) = Len(store.storage)
                 /\ \A i \in DOMAIN store.storage :
                       store.storage[i].id # id => r.db.storage[i] = store.storage[i]
            ELSE r.item = <<>> /\ r.db = store

\* the store holds two records, and an update of one of them is passed an
\* item that carries the id of the other
C21_Witness ==
    \E i, j \in DOMAIN store.storage :
        /\ i # j
        /\ DbUpdate(store, store.storage[i].id,
                    [id |-> store.storage[j].id, val |-> "b"]).item
              = <<[id |-> store.storage[i].id, val |-> "b"]>>
        /\ store.storage[i].val = "a"
        /\ \E id \in StoreIds :
              DbUpdate(store, id, [id |-> NoneInt, val |-> "b"]).item = <<>>

\* C22: store delete(id) returns true and removes exactly the record with
\* that id when it is present, returns false and leaves the store unchanged
\* when it is absent; afterwards get(id) is not-found; delete never changes
\* the next-id counter, and a second delete of the same id returns false.
C22_StoreDelete ==
    \A id \in StoreIds :
        LET r == DbDelete(store, id)
        IN  /\ IF DictHas(store.storage, id)
               THEN /\ r.ok
                    /\ r.db.storage = SelectSeq(store.storage, LAMBDA x : x.id # id)
                    /\ Len(r.db.storage) = Len(store.storage) - 1
               ELSE ~r.ok /\ r.db = store
            /\ DbGetById(r.db, id) = <<>>
            /\ r.db.next_id = store.next_id
            /\ ~DbDelete(r.db, id).ok

\* the store holds two records and some id is no key: one delete returns
\* true, another false
C22_Witness ==
    /\ Len(store.storage) = 2
    /\ \E id \in StoreIds : DbDelete(store, id).ok /\ DbGetById(store, id) # <<>>
    /\ \E id \in StoreIds : ~DbDelete(store, id).ok

\* C23: after clear() the store holds no records and the next create of an
\* item without id is assigned id 1, whatever creates and deletes preceded.
C23_StoreClear ==
    LET c == DbClear(store)
    IN  /\ DbGetAll(c) = <<>>
        /\ \A v \in StoreVals :
              LET r == DbCreate(c, [id |-> NoneInt, val |-> v])
              IN  /\ ~r.error
                  /\ r.item = <<[id |-> 1, val |-> v]>>
                  /\ DbGetAll(r.db) = <<[id |-> 1, val |-> v]>>

\* ids were assigned, some of the records were deleted and some are stored
C23_Witness ==
    /\ Len(assigned) >= 3
    /\ store.storage # <<>>
    /\ Len(store.storage) < Len(assigned)
    /\ DbCreate(store, [id |-> NoneInt, val |-> "a"]).item[1].id > 3
    /\ DbCreate(DbClear(store), [id |-> NoneInt, val |-> "a"]).item[1].id = 1

\* C24: get_all returns the stored records in the order their keys were
\* inserted: a step of the store appends a new key at the end, or keeps the
\* keys and their order (update), or removes one key and keeps the order of
\* the others (delete), or empties the store (clear).
C24_ListOrder ==
    [][LET old == [i \in DOMAIN store.storage |-> store.storage[i].id]
           new == [i \in DOMAIN store'.storage |-> store'.storage[i].id]
       IN  /\ DbGetAll(store') = store'.storage
           /\ \/ new = old
              \/ \E k \in StoreIds :
                    /\ \A i \in DOMAIN old : old[i] # k
                    /\ new = Append(old, k)
                    /\ \A i \in DOMAIN old : store'.storage[i] = store.storage[i]
              \/ \E k \in StoreIds :
                    /\ \E i \in DOMAIN old : old[i] = k
                    /\ store'.storage = SelectSeq(store.storage, LAMBDA x : x.id # k)
              \/ new = <<>>]_vars

\* the keys are stored in an order that is not their numeric order, and an
\* update of the first one leaves it first
C24_Witness ==
    /\ Len(store.storage) >= 3
    /\ store.storage[1].id > store.storage[2].id
    /\ store.storage[1].val = "a"
    /\ DbGetAll(DbUpdate(store, store.storage[1].id,
                         [id |-> NoneInt, val |-> "b"]).db)[1]
          = [id |-> store.storage[1].id, val |-> "b"]

\* C25: in every state, for every car_id and every pair (start, end) in
\* either order, has_conflicting_booking(car_id, start, end) is true if and
\* only if some booking is returned by both get_by_car_id(car_id) and
\* get_by_datetime_range(start, end).
C25_RangeFilterIsConflict ==
    \A c \in BookingCarIdInputs, s \in RepoTimes, e \in RepoTimes :
        LET of_car == get_by_car_id(booking_db, c)
            in_range == get_by_datetime_range(booking_db, s, e)
        IN  has_conflicting_booking(booking_db, c, s, e, NoneInt)
            <=> \E i \in DOMAIN of_car, j \in DOMAIN in_range : of_car[i] = in_range[j]

\* a reversed pair of bounds inside a stored booking is a conflict, a pair
\* that touches the booking is none, and a car has a booking in the range
\* that belongs to another car
C25_Witness ==
    \E i \in DOMAIN Bookings, s \in RepoTimes, e \in RepoTimes, c \in RepoCarIds :
        /\ s > e
        /\ has_conflicting_booking(booking_db, Bookings[i].car_id, s, e, NoneInt)
        /\ ~has_conflicting_booking(booking_db, Bookings[i].car_id,
                                    Bookings[i].end_datetime,
                                    Bookings[i].end_datetime + 1, NoneInt)
        /\ c # Bookings[i].car_id
        /\ ~has_conflicting_booking(booking_db, c, s, e, NoneInt)
        /\ get_by_datetime_range(booking_db, s, e) # <<>>

\* C26: has_conflicting_booking with exclude_booking_id = x ignores exactly
\* the booking whose id is x and checks every other booking of the car; so
\* where no two bookings of a car overlap, for every stored booking b the
\* check of b's own car and interval is false with exclude id b.id and true
\* without exclude id.
C26_ExcludeId ==
    /\ \A c \in BookingCarIdInputs, s \in RepoTimes, e \in RepoTimes,
          x \in {NoneInt, 0} \cup BookingIdInputs :
          has_conflicting_booking(booking_db, c, s, e, x)
          <=> \E i \in DOMAIN Bookings :
                 /\ Bookings[i].car_id = c
                 /\ Bookings[i].id # x
                 /\ Overlap(s, e, Bookings[i].start_datetime, Bookings[i].end_datetime)
    /\ (\A i, j \in DOMAIN Bookings :
           (i # j /\ Bookings[i].car_id = Bookings[j].car_id)
              => ~Overlap(Bookings[i].start_datetime, Bookings[i].end_datetime,
                          Bookings[j].start_datetime, Bookings[j].end_datetime))
       => \A i \in DOMAIN Bookings :
             LET b == Bookings[i]
             IN  /\ ~has_conflicting_booking(booking_db, b.car_id, b.start_datetime,
                                             b.end_datetime, b.id)
                 /\ has_conflicting_booking(booking_db, b.car_id, b.start_datetime,
                                            b.end_datetime, NoneInt)

\* a car has two bookings that do not overlap; a range over both conflicts
\* whichever of the two is excluded, and each one's own interval conflicts
\* only when it is not excluded
C26_Witness ==
    \E i, j \in DOMAIN Bookings :
        LET a == Bookings[i]
            b == Bookings[j]
        IN  /\ i # j
            /\ a.car_id = b.car_id
            /\ a.end_datetime <= b.start_datetime
            /\ has_conflicting_booking(booking_db, a.car_id, a.start_datetime,
                                       b.end_datetime, a.id)
            /\ has_conflicting_booking(booking_db, a.car_id, a.start_datetime,
                                       b.end_datetime, b.id)
            /\ ~has_conflicting_booking(booking_db, a.car_id, a.start_datetime,
                                        a.end_datetime, a.id)
            /\ has_conflicting_booking(booking_db, a.car_id, a.start_datetime,
                                       a.end_datetime, b.id)

\* C27: in every reachable state, for every stored car c and every
\* start < end, a create-booking request for (c, start, end) succeeds if and
\* only if c is in the result of get_available_cars(start, end).
C27_AvailabilityAgreesWithBooking ==
    \A k \in DOMAIN Cars, s \in Times, e \in Times :
        s < e =>
           LET avail == get_available_cars(App, s, e)
           IN  create_booking(App, Cars[k].id, s, e).result = "Created"
               <=> /\ avail.result = "OK"
                   /\ \E i \in DOMAIN avail.ret : avail.ret[i].id = Cars[k].id

\* C28: in every state reached by requests served one at a time, every
\* stored booking's car_id is the id of a stored car.
C28_BookingReferenceIntegrity ==
    \A i \in DOMAIN Bookings : CarStored(Bookings[i].car_id)

\* a booking is stored, its car cannot be deleted, another car can, and a
\* booking for an id of no car is refused
C28_Witness ==
    \E i \in DOMAIN Bookings, k \in DOMAIN Cars, id \in BookingCarIdInputs :
        /\ delete_car(App, Bookings[i].car_id).result = "HasBookings"
        /\ delete_car(App, Cars[k].id).result = "NoContent"
        /\ create_booking(App, id, 0, 1).result = "NotFound"

\* C29: every create that returns successfully, with or without a preset
\* id, increases the number of stored records by one and leaves every
\* previously stored record in place under its id.
C29_CreateNeverOverwrites ==
    \A item \in StoreItems :
        LET r == DbCreate(store, item)
        IN  ~r.error =>
               /\ Len(r.db.storage) = Len(store.storage) + 1
               /\ \A i \in DOMAIN store.storage : r.db.storage[i] = store.storage[i]

\* C30: deleting a car that has no bookings succeeds and removes exactly
\* that car; afterwards get-car of its id is NotFound, a create-car with the
\* deleted car's VIN succeeds, and the new car's id is greater than every id
\* assigned before in the car collection.
C30_DeleteCarThenRecreate ==
    \A k \in DOMAIN Cars :
        LET car == Cars[k]
            o == delete_car(App, car.id)
        IN  get_by_car_id(booking_db, car.id) = <<>> =>
               /\ o.result = "NoContent"
               /\ o.app.car_db.storage = SelectSeq(Cars, LAMBDA x : x.id # car.id)
               /\ Len(o.app.car_db.storage) = Len(Cars) - 1
               /\ o.app.booking_db = booking_db
               /\ get_car(o.app, car.id).result = "NotFound"
               /\ \A st \in CarStatus, d \in DealerIdInputs :
                     DealerStored(d) =>
                        LET n == create_car(o.app, car.vin, st, d)
                        IN  /\ n.result = "Created"
                            /\ n.ret[1].vin = car.vin
                            /\ n.ret[1].id > car.id
                            /\ \A id \in 1..(car_db.next_id - 1) : n.ret[1].id > id

\* C31: when create-booking succeeds, the booking collection gains exactly
\* one record, whose id is the collection's previous next-id and whose
\* car_id, start and end are the request's; every booking stored before and
\* every car, the booked car's status included, is unchanged.
C31_CreateBookingFrame ==
    \A c \in BookingCarIdInputs, s \in Times, e \in Times :
        LET o == create_booking(App, c, s, e)
            booking == [id |-> booking_db.next_id, car_id |-> c,
                        start_datetime |-> s, end_datetime |-> e]
        IN  o.result = "Created" =>
               /\ o.ret = <<booking>>
               /\ o.app.booking_db.storage = Append(Bookings, booking)
               /\ ~\E i \in DOMAIN Bookings : Bookings[i].id = booking.id
               /\ o.app.booking_db.next_id = booking_db.next_id + 1
               /\ o.app.car_db = car_db
               /\ o.app.dealer_db = dealer_db

\* a booking is stored, and a request for a second booking of its car
\* succeeds
C31_Witness ==
    \E i \in DOMAIN Bookings, s \in Times, e \in Times :
        /\ create_booking(App, Bookings[i].car_id, s, e).result = "Created"
        /\ Len(create_booking(App, Bookings[i].car_id, s, e).app.booking_db.storage) = 2

\* C32: update_car leaves the booking collection unchanged; setting a car's
\* status to MAINTENANCE succeeds also when the car has stored bookings,
\* which stay stored and listed, and create-booking requests for the car are
\* rejected until its status is AVAILABLE again.
C32_UpdateNeverTouchesBookings ==
    /\ \A id \in CarIdInputs, p \in CarUpdates :
          update_car(App, id, p).app.booking_db = booking_db
    /\ \A k \in DOMAIN Cars :
          LET car == Cars[k]
              o == update_car(App, car.id,
                              [fields_set |-> {"status"}, vin |-> None,
                               status |-> MAINTENANCE, dealer_id |-> NoneInt])
              back == update_car(o.app, car.id,
                                 [fields_set |-> {"status"}, vin |-> None,
                                  status |-> AVAILABLE, dealer_id |-> NoneInt])
          IN  get_by_car_id(booking_db, car.id) # <<>> =>
              /\ o.result = "OK"
              /\ o.ret[1].status = MAINTENANCE
              /\ get_bookings(o.app, car.id, NoneInt, NoneInt).ret
                    = get_by_car_id(booking_db, car.id)
              /\ \A s \in Times, e \in Times :
                    s < e =>
                       /\ create_booking(o.app, car.id, s, e).result = "NotAvailable"
                       /\ create_booking(back.app, car.id, s, e).result
                             = IF Booked(car.id, s, e) THEN "AlreadyBooked"
                               ELSE "Created"

\* C33: the dealer collection is empty at process start, so one dealer is
\* seeded, with id 1; no request creates or deletes a dealer, so in every
\* state reached through the API the collection is exactly that dealer.
C33_DealerSeeding ==
    /\ DbGetAll(EmptyDb) = <<>>
    /\ dealer_db = [storage |-> <<[id |-> 1]>>, next_id |-> 2]

\* cars were created and one moved to maintenance; requests naming dealer 2
\* are NotFound, requests naming dealer 1 pass the dealer lookup
C33_Witness ==
    \E k \in DOMAIN Cars, v \in VINs :
        /\ Len(Cars) = MaxCars
        /\ Cars[k].status = MAINTENANCE
        /\ create_car(App, v, AVAILABLE, 2).result = "NotFound"
        /\ create_car(App, v, AVAILABLE, 1).result # "NotFound"
        /\ update_car(App, Cars[k].id,
                      [fields_set |-> {"dealer_id"}, vin |-> None, status |-> None,
                       dealer_id |-> 2]).result = "NotFound"

\* C34: two concurrent create-car requests with the same VIN can both pass
\* the VIN lookup before either inserts, and then two stored cars share the
\* VIN; it is the only way two stored cars get the same VIN.
C34_DuplicateVinByRace ==
    \A i, j \in DOMAIN Cars :
        (i # j /\ Cars[i].vin = Cars[j].vin)
        => \A t \in Threads :
              /\ threads[t].result = "Created"
              /\ threads[t].vin = Cars[i].vin
              /\ \A k \in DOMAIN threads[t].cars : threads[t].cars[k].vin # Cars[i].vin

\* both requests were answered 201 and two stored cars have their VIN
C34_Witness ==
    /\ \A t \in Threads : threads[t].result = "Created"
    /\ \E i, j \in DOMAIN Cars :
          /\ Cars[i].id # Cars[j].id
          /\ Cars[i].vin = Cars[j].vin
          /\ Cars[i].vin \in VINs

\* C35: a delete-car request and a create-booking request for the same car
\* can interleave so that delete-car sees no bookings, create-booking sees
\* the car stored and AVAILABLE, and both complete: a stored booking then
\* references no stored car; it is the only way such a booking arises.
C35_DanglingBookingByRace ==
    \A i \in DOMAIN Bookings :
        ~CarStored(Bookings[i].car_id)
        => /\ threads[1].result = "Created"
           /\ threads[1].car_id = Bookings[i].car_id
           /\ threads[2].result = "NoContent"
           /\ threads[2].car_id = Bookings[i].car_id
           /\ threads[2].bookings = <<>>

\* the booking was answered 201, the delete 204, and the stored booking's
\* car is gone
C35_Witness ==
    /\ threads[1].result = "Created"
    /\ threads[2].result = "NoContent"
    /\ \E i \in DOMAIN Bookings :
          /\ Bookings[i].car_id = threads[2].car_id
          /\ DbGetById(car_db, Bookings[i].car_id) = <<>>

====
